---- MODULE Spec2Model ----
(***************************************************************************)
(* Model of src/main.py: the hybrid-search ingestion and question loop.    *)
(*                                                                         *)
(* Strings are sequences of one-character strings, so that the string      *)
(* tests and the whitespace/sentence splitting of the program are computed *)
(* and not assumed.  The statistics object is the BM25Encoder created at   *)
(* line 45 (pretrained defaults) and mutated at line 108; the index is the *)
(* remote index written by retriever.add_texts at line 107.                *)
(*                                                                         *)
(* What the imported library objects do when main.py calls them is         *)
(* modelled as the libraries do it: BM25Encoder.fit computes doc_freq,     *)
(* n_docs and avgdl from the corpus it is given and assigns them to the    *)
(* encoder, one attribute after the other; retriever.add_texts encodes     *)
(* the texts under the encoder's current avgdl and upserts them under the  *)
(* hash of their text; retriever.invoke returns the index's top_k records. *)
(* Stop-word removal, stemming and the dense vectors are left out.         *)
(***************************************************************************)
EXTENDS Integers, Sequences, FiniteSets, TLC

\* ---------------------------------------------------------------- bounds
MaxBatches == 2      \* times choice '1' is taken with a non-empty list
MaxQuestions == 2    \* questions asked over the whole run

\* ------------------------------------------------------- string helpers
RECURSIVE SplitFrom(_, _, _, _)
SplitFrom(t, i, cur, acc) ==
    IF i > Len(t)
    THEN IF cur = <<>> THEN acc ELSE Append(acc, cur)
    ELSE IF t[i] = " "
         THEN SplitFrom(t, i + 1, <<>>, IF cur = <<>> THEN acc ELSE Append(acc, cur))
         ELSE SplitFrom(t, i + 1, Append(cur, t[i]), acc)

\* str.split(): maximal runs of non-whitespace characters
Split(t) == SplitFrom(t, 1, <<>>, <<>>)

RECURSIVE Join(_, _)
\* sep.join(parts)
Join(parts, sep) ==
    IF parts = <<>> THEN <<>>
    ELSE IF Len(parts) = 1 THEN parts[1]
    ELSE parts[1] \o sep \o Join(Tail(parts), sep)

Lower(c) ==
    CASE c = "P" -> "p" [] c = "D" -> "d" [] c = "F" -> "f"
      [] c = "H" -> "h" [] c = "T" -> "t" [] c = "S" -> "s"
      [] OTHER -> c

LowerStr(s) == [i \in 1..Len(s) |-> Lower(s[i])]

EndsWith(s, suf) ==
    /\ Len(s) >= Len(suf)
    /\ SubSeq(s, Len(s) - Len(suf) + 1, Len(s)) = suf

StartsWith(s, pre) ==
    /\ Len(s) >= Len(pre)
    /\ SubSeq(s, 1, Len(pre)) = pre

Strip(s) == Join(Split(s), <<" ">>)

\* ------------------------------------------------------ source routing
IsPdf(source) == EndsWith(LowerStr(source), <<".", "p", "d", "f">>)

IsUrl(source) ==
    \/ StartsWith(source, <<"h", "t", "t", "p", ":", "/", "/">>)
    \/ StartsWith(source, <<"h", "t", "t", "p", "s", ":", "/", "/">>)

\* ------------------------------------------------------- preprocess_text
RECURSIVE SentFrom(_, _, _, _)
SentFrom(t, i, cur, acc) ==
    IF i > Len(t)
    THEN IF cur = <<>> THEN acc ELSE Append(acc, cur)
    ELSE IF t[i] = " " /\ cur # <<>> /\ cur[Len(cur)] = "."
         THEN SentFrom(t, i + 1, <<>>, Append(acc, cur))
         ELSE SentFrom(t, i + 1, Append(cur, t[i]), acc)

\* nltk.sent_tokenize: a sentence ends at a full stop followed by a space
sent_tokenize(t) == SentFrom(t, 1, <<>>, <<>>)

preprocess_text(text) ==
    LET collapsed == Join(Split(text), <<" ">>)
        sents == sent_tokenize(collapsed)
    IN  SelectSeq(sents, LAMBDA s : Len(Strip(s)) > 0)


\* ------------------------------------------------------------ inputs
\* source identifiers the user may type
SrcPdf == <<"a", ".", "p", "d", "f">>
SrcPDF == <<"b", ".", "P", "D", "F">>
SrcUrl == <<"h", "t", "t", "p", ":", "/", "/", "c">>
SrcHTTP == <<"H", "T", "T", "P", ":", "/", "/", "d">>
SrcTxt == <<"e", ".", "t", "x", "t">>

\* raw texts an extraction may return
TxtEmpty == <<>>
TxtBlank == <<" ">>
TxtAB == <<"a", ".", " ", " ", "b", " ", "a", ".">>
TxtB == <<"b", ".">>
TxtDot == <<".">>
Texts == {TxtEmpty, TxtBlank, TxtAB, TxtB, TxtDot}

\* what the outside world can hand back for each source
World(source) ==
    CASE source = SrcPdf -> {TxtAB, TxtEmpty}
      [] source = SrcPDF -> {TxtDot, TxtBlank}
      [] source = SrcUrl -> {TxtB}
      [] OTHER -> Texts

\* the lists the user may enter at choice 1
SrcLists ==
    {<<SrcPdf, SrcUrl>>, <<SrcTxt, SrcUrl>>, <<SrcUrl, SrcUrl>>, <<SrcPDF>>,
     <<SrcHTTP>>}

Questions == {"q1", "q2"}
Completions == {"c1", "c2"}

\* ---------------------------------------------------------- BM25Encoder
Terms == {<<"a">>, <<"b">>}

\* BM25Tokenizer: punctuation removed, remaining words are the terms
Tokens(doc) == Split(SelectSeq(doc, LAMBDA c : c # "."))

TermFreq(doc, t) == Cardinality({i \in 1..Len(Tokens(doc)) : Tokens(doc)[i] = t})

RECURSIVE Gcd(_, _)
Gcd(a, b) == IF b = 0 THEN a ELSE Gcd(b, a % b)

\* the float a / b, kept exact as a reduced fraction
Ratio(a, b) == <<a \div Gcd(a, b), b \div Gcd(a, b)>>

RECURSIVE SumLen(_)
SumLen(corpus) ==
    IF corpus = <<>> THEN 0 ELSE Len(Tokens(corpus[1])) + SumLen(Tail(corpus))

\* the counters BM25Encoder.fit computes from the corpus it is given
fit_doc_freq(corpus) ==
    [t \in Terms |-> Cardinality({i \in 1..Len(corpus) : TermFreq(corpus[i], t) > 0})]

fit_n_docs(corpus) == Cardinality({i \in 1..Len(corpus) : Tokens(corpus[i]) # <<>>})

fit_sum_doc_len(corpus) == SumLen(corpus)

\* BM25Encoder().default(): pretrained statistics (scaled down)
DefaultStats ==
    [doc_freq |-> [t \in Terms |-> IF t = <<"a">> THEN 2 ELSE 3],
     n_docs |-> 4,
     avgdl |-> <<2, 1>>]

\* BM25Encoder.encode_documents for one document, k1 = 1.2 and b = 0.75:
\* tf / (k1 * (1 - b + b * len / avgdl) + tf) for every term of the document
encode_document(doc, avgdl) ==
    LET dl == Len(Tokens(doc))
        present == {t \in Terms : TermFreq(doc, t) > 0}
    IN  [t \in present |->
            Ratio(10 * TermFreq(doc, t) * avgdl[1],
                  3 * avgdl[1] + 9 * dl * avgdl[2] + 10 * TermFreq(doc, t) * avgdl[1])]

\* ids are the SHA-256 of the text: equal texts, equal ids
hash_text(context) == context


\* -------------------------------------------------------------- state
VARIABLES
    main,       \* position of the main loop
    batches,    \* non-empty batches started so far
    asked,      \* questions asked so far
    printed,    \* last message printed by the main loop
    sources,    \* the list handed to add_documents_batch
    pc,         \* per source: position of its worker in add_documents_to_retriever
    cause,      \* per source: the exception stored in its future
    text,       \* per source: local variable text
    sentences,  \* per source: local variable sentences
    vecs,       \* per source: vectors built for the upsert request in progress
    pos,        \* per source: number of its sentences already upserted
    stats,      \* bm25_encoder: doc_freq, n_docs, avgdl
    index,      \* the remote index: id -> record
    everFit,    \* history: counts of all corpora whose fit has completed
    question,   \* user_query
    results,    \* page contents returned by retriever.invoke
    prompt,     \* prompt handed to the last llm.invoke of this question
    llmCalls,   \* llm.invoke calls made for this question
    response,   \* what the last llm.invoke handed back: a text, or "raised"
    answer      \* what query_vector_database returned, or the error it raised

vars == <<main, batches, asked, printed, sources, pc, cause, text, sentences,
          vecs, pos, stats, index, everFit, question, results, prompt,
          llmCalls, response, answer>>

workerVars == <<pc, cause, text, sentences, vecs, pos>>
queryVars == <<question, results, prompt, llmCalls, response, answer>>

Tasks == 1..Len(sources)
Terminal == {"Upserted", "Failed"}

\* retriever.add_texts sends the texts in requests of 32; the retriever
\* asks the index for its 4 best records
BatchSize == 32
top_k == 4

NoInfo == "No relevant information found in the database."
MenuText == "1. Add PDFs or Webpages 2. Ask Questions 3. Quit"
QuestionPrompt == "Enter your question (or 'done' to finish): "

ZeroCounts == [doc_freq |-> [t \in Terms |-> 0], n_docs |-> 0]

Init ==
    /\ main = "menu"
    /\ batches = 0
    /\ asked = 0
    /\ printed = MenuText
    /\ sources = <<>>
    /\ pc = <<>>
    /\ cause = <<>>
    /\ text = <<>>
    /\ sentences = <<>>
    /\ vecs = <<>>
    /\ pos = <<>>
    /\ stats = DefaultStats
    /\ index = <<>>
    /\ everFit = ZeroCounts
    /\ question = "none"
    /\ results = <<>>
    /\ prompt = <<>>
    /\ llmCalls = 0
    /\ response = "none"
    /\ answer = "none"

\* ---------------------------------------------------- main loop, choice 1
\* lines 140-151: a non-empty list is handed to add_documents_batch, whose
\* executor.map submits one call of add_documents_to_retriever per source
AddDocuments(srcs) ==
    /\ main = "menu"
    /\ batches < MaxBatches
    /\ main' = "ingesting"
    /\ batches' = batches + 1
    /\ sources' = srcs
    /\ pc' = [i \in 1..Len(srcs) |-> "Pending"]
    /\ cause' = [i \in 1..Len(srcs) |-> "none"]
    /\ text' = [i \in 1..Len(srcs) |-> <<>>]
    /\ sentences' = [i \in 1..Len(srcs) |-> <<>>]
    /\ vecs' = [i \in 1..Len(srcs) |-> <<>>]
    /\ pos' = [i \in 1..Len(srcs) |-> 0]
    /\ UNCHANGED <<asked, printed, stats, index, everFit, queryVars>>

\* lines 155-156
NoSources ==
    /\ main = "menu"
    /\ main' = "nosources"
    /\ printed' = "No sources provided."
    /\ UNCHANGED << batches, asked, sources, workerVars, stats, index,
                   everFit, queryVars>>

\* ------------------------------------------- add_documents_to_retriever
Fail(i, why) ==
    /\ pc' = [pc EXCEPT ![i] = "Failed"]
    /\ cause' = [cause EXCEPT ![i] = why]
    /\ text' = [text EXCEPT ![i] = <<>>]
    /\ vecs' = [vecs EXCEPT ![i] = <<>>]

\* variant of Start that routes every source to extraction
StartUnrouted(i) ==
    /\ main = "ingesting"
    /\ pc[i] = "Pending"
    /\ pc' = [pc EXCEPT ![i] = "Extracting"]
    /\ UNCHANGED <<main, batches, asked, printed, sources, cause, text, vecs,
                   sentences, pos, stats, index, everFit, queryVars>>

\* lines 93-98: the worker picks the source up and routes it
Start(i) ==
    /\ main = "ingesting"
    /\ pc[i] = "Pending"
    /\ IF IsPdf(sources[i]) \/ IsUrl(sources[i])
       THEN /\ pc' = [pc EXCEPT ![i] = "Extracting"]
            /\ UNCHANGED <<cause, text, vecs>>
       ELSE Fail(i, "Unsupported source format")
    /\ UNCHANGED <<main, batches, asked, printed, sources, sentences, pos,
                   stats, index, everFit, queryVars>>

\* lines 94, 96: scrape_pdf or scrape_webpage returns a text
Extract(i, t) ==
    /\ main = "ingesting"
    /\ pc[i] = "Extracting"
    /\ t \in World(sources[i])
    /\ pc' = [pc EXCEPT ![i] = "Normalizing"]
    /\ text' = [text EXCEPT ![i] = t]
    /\ UNCHANGED <<main, batches, asked, printed, sources, cause, sentences,
                   vecs, pos, stats, index, everFit, queryVars>>

\* lines 94, 96: the file cannot be opened or read, the request fails
ExtractFail(i) ==
    /\ main = "ingesting"
    /\ pc[i] = "Extracting"
    /\ Fail(i, "Extraction")
    /\ UNCHANGED <<main, batches, asked, printed, sources, sentences, pos,
                   stats, index, everFit, queryVars>>

\* variant of Normalize that goes on with an empty list of sentences
NormalizeUnchecked(i) ==
    /\ main = "ingesting"
    /\ pc[i] = "Normalizing"
    /\ pc' = [pc EXCEPT ![i] =
                 IF preprocess_text(text[i]) = <<>> THEN "Fitting" ELSE "Encoding"]
    /\ sentences' = [sentences EXCEPT ![i] = preprocess_text(text[i])]
    /\ text' = [text EXCEPT ![i] = <<>>]
    /\ UNCHANGED <<main, batches, asked, printed, sources, cause, vecs, pos,
                   stats, index, everFit, queryVars>>

\* lines 101-104
Normalize(i) ==
    /\ main = "ingesting"
    /\ pc[i] = "Normalizing"
    /\ IF preprocess_text(text[i]) = <<>>
       THEN /\ Fail(i, "No valid content")
            /\ UNCHANGED sentences
       ELSE /\ pc' = [pc EXCEPT ![i] = "Encoding"]
            /\ sentences' = [sentences EXCEPT ![i] = preprocess_text(text[i])]
            /\ text' = [text EXCEPT ![i] = <<>>]
            /\ UNCHANGED <<cause, vecs>>
    /\ UNCHANGED <<main, batches, asked, printed, sources, pos, stats, index,
                   everFit, queryVars>>

\* line 107, retriever.add_texts: the next text of the request is encoded
\* under the statistics as they are at this moment
EncodeChunk(i) ==
    /\ main = "ingesting"
    /\ pc[i] = "Encoding"
    /\ LET k == pos[i] + Len(vecs[i]) + 1
           doc == sentences[i][k]
           rec == [id |-> hash_text(doc), context |-> doc,
                   sparse |-> encode_document(doc, stats.avgdl)]
       IN  /\ vecs' = [vecs EXCEPT ![i] = Append(@, rec)]
           /\ pc' = [pc EXCEPT ![i] =
                        IF Len(vecs[i]) + 1 = BatchSize \/ k = Len(sentences[i])
                        THEN "Upserting" ELSE "Encoding"]
    /\ UNCHANGED <<main, batches, asked, printed, sources, cause, text,
                   sentences, pos, stats, index, everFit, queryVars>>

\* variant of upsert that stores every record under an id of its own
upsert_fresh(idx, recs) ==
    [d \in (DOMAIN idx) \cup {<<recs[j].id, Cardinality(DOMAIN idx) + j>> : j \in 1..Len(recs)} |->
        IF d \in DOMAIN idx THEN idx[d]
        ELSE [context |-> recs[d[2] - Cardinality(DOMAIN idx)].context,
              sparse |-> recs[d[2] - Cardinality(DOMAIN idx)].sparse]]

\* index.upsert: records are stored or replaced by id
upsert(idx, recs) ==
    LET ids == {recs[j].id : j \in 1..Len(recs)}
        last(d) == CHOOSE j \in 1..Len(recs) :
                      /\ recs[j].id = d
                      /\ \A h \in 1..Len(recs) : recs[h].id = d => h <= j
    IN  [d \in (DOMAIN idx) \cup ids |->
            IF d \in ids THEN [context |-> recs[last(d)].context,
                               sparse |-> recs[last(d)].sparse]
            ELSE idx[d]]

\* line 107: the upsert request of the worker is applied by the index
Upsert(i) ==
    /\ main = "ingesting"
    /\ pc[i] = "Upserting"
    /\ index' = upsert(index, vecs[i])
    /\ pos' = [pos EXCEPT ![i] = @ + Len(vecs[i])]
    /\ vecs' = [vecs EXCEPT ![i] = <<>>]
    /\ pc' = [pc EXCEPT ![i] =
                 IF pos[i] + Len(vecs[i]) < Len(sentences[i])
                 THEN "Encoding" ELSE "Fitting"]
    /\ UNCHANGED <<main, batches, asked, printed, sources, cause, text,
                   sentences, stats, everFit, queryVars>>

\* line 107: the index rejects the request
UpsertFail(i) ==
    /\ main = "ingesting"
    /\ pc[i] = "Upserting"
    /\ Fail(i, "Upsert")
    /\ UNCHANGED <<main, batches, asked, printed, sources, sentences, pos,
                   stats, index, everFit, queryVars>>

\* line 108, BM25Encoder.fit: the counters of the given corpus are computed
\* and then assigned, one attribute after the other
FitDocFreq(i) ==
    /\ main = "ingesting"
    /\ pc[i] = "Fitting"
    /\ stats' = [stats EXCEPT !.doc_freq = fit_doc_freq(sentences[i])]
    /\ pc' = [pc EXCEPT ![i] = "FitNDocs"]
    /\ UNCHANGED <<main, batches, asked, printed, sources, cause, text,
                   sentences, vecs, pos, index, everFit, queryVars>>

FitNDocs(i) ==
    /\ main = "ingesting"
    /\ pc[i] = "FitNDocs"
    /\ stats' = [stats EXCEPT !.n_docs = fit_n_docs(sentences[i])]
    /\ pc' = [pc EXCEPT ![i] = "FitAvgdl"]
    /\ UNCHANGED <<main, batches, asked, printed, sources, cause, text,
                   sentences, vecs, pos, index, everFit, queryVars>>

AddCounts(acc, corpus) ==
    [doc_freq |-> [t \in Terms |-> acc.doc_freq[t] + fit_doc_freq(corpus)[t]],
     n_docs |-> acc.n_docs + fit_n_docs(corpus)]

\* avgdl = sum_doc_len / n_docs raises ZeroDivisionError when no document
\* of the corpus has a term
FitAvgdl(i) ==
    /\ main = "ingesting"
    /\ pc[i] = "FitAvgdl"
    /\ IF fit_n_docs(sentences[i]) = 0
       THEN /\ Fail(i, "Fit")
            /\ UNCHANGED <<stats, everFit>>
       ELSE /\ stats' = [stats EXCEPT !.avgdl =
                            Ratio(fit_sum_doc_len(sentences[i]), fit_n_docs(sentences[i]))]
            /\ everFit' = AddCounts(everFit, sentences[i])
            /\ pc' = [pc EXCEPT ![i] = "Upserted"]
            /\ UNCHANGED <<cause, text, vecs>>
    /\ UNCHANGED <<main, batches, asked, printed, sources, sentences, pos,
                   index, queryVars>>

\* --------------------------------------------------- add_documents_batch
\* the iterator returned by executor.map is dropped without being read:
\* no exception stored in a future is raised in the caller
batchException == "none"

\* variant of AddDocumentsReturn that does not wait for the workers
AddDocumentsReturnNoWait ==
    /\ main = "ingesting"
    /\ main' = "added"
    /\ printed' = "Documents successfully added to the retriever."
    /\ UNCHANGED <<batches, asked, sources, workerVars, stats, index, everFit,
                   queryVars>>

\* variant of AddDocumentsReturn in which the first failure ends the batch
AddDocumentsReturnOnFailure ==
    /\ main = "ingesting"
    /\ \/ \A i \in Tasks : pc[i] \in Terminal
       \/ \E i \in Tasks : pc[i] = "Failed"
    /\ main' = "added"
    /\ printed' = IF \E i \in Tasks : pc[i] = "Failed"
                  THEN "Error adding documents"
                  ELSE "Documents successfully added to the retriever."
    /\ UNCHANGED <<batches, asked, sources, workerVars, stats, index, everFit,
                   queryVars>>

\* lines 130-132, 152-154: leaving the with block waits for every worker
AddDocumentsReturn ==
    /\ main = "ingesting"
    /\ \A i \in Tasks : pc[i] \in Terminal
    /\ main' = "added"
    /\ printed' = IF batchException = "none"
                  THEN "Documents successfully added to the retriever."
                  ELSE "Error adding documents"
    /\ UNCHANGED <<batches, asked, sources, workerVars, stats, index, everFit,
                   queryVars>>

\* lines 136-138: the loop comes round and the menu is printed; the list,
\* the executor and its futures of the last batch are no longer referenced
ToMenu ==
    /\ main \in {"added", "nosources"}
    /\ main' = "menu"
    /\ printed' = MenuText
    /\ sources' = <<>>
    /\ pc' = <<>>
    /\ cause' = <<>>
    /\ text' = <<>>
    /\ sentences' = <<>>
    /\ vecs' = <<>>
    /\ pos' = <<>>
    /\ UNCHANGED <<batches, asked, stats, index, everFit, queryVars>>


\* ---------------------------------------------------- main loop, choice 2
\* line 158
ChooseAsk ==
    /\ main = "menu"
    /\ asked < MaxQuestions
    /\ main' = "asking"
    /\ printed' = QuestionPrompt
    /\ UNCHANGED <<batches, asked, sources, workerVars, stats, index,
                   everFit, queryVars>>

\* lines 160-164: a question is read and query_vector_database is called
AskQuestion(q) ==
    /\ main = "asking"
    /\ asked < MaxQuestions
    /\ asked' = asked + 1
    /\ main' = "retrieving"
    /\ question' = q
    /\ results' = <<>>
    /\ prompt' = <<>>
    /\ llmCalls' = 0
    /\ response' = "none"
    /\ answer' = "none"
    /\ UNCHANGED <<batches, printed, sources, workerVars, stats, index, everFit>>

\* lines 161-162
DoneAsking ==
    /\ main = "asking"
    /\ main' = "menu"
    /\ printed' = MenuText
    /\ UNCHANGED <<batches, asked, sources, workerVars, stats, index,
                   everFit, queryVars>>

\* the index answers a query with its top_k best records, in score order;
\* the scores depend on the embedding model, so every order is possible
Rankings(idx) ==
    LET m == IF Cardinality(DOMAIN idx) < top_k THEN Cardinality(DOMAIN idx) ELSE top_k
    IN  {r \in [1..m -> DOMAIN idx] : \A a, b \in 1..m : r[a] = r[b] => a = b}

\* variant of Retrieve that hands every retrieval to the model
RetrieveUnchecked(r) ==
    /\ main = "retrieving"
    /\ results' = [j \in 1..Len(r) |-> index[r[j]].context]
    /\ main' = "generating"
    /\ UNCHANGED <<batches, asked, printed, sources, workerVars, stats, index,
                   everFit, question, prompt, llmCalls, response, answer>>

\* variant of Retrieve that fits the encoder on the question
RetrieveFitting(r) ==
    /\ main = "retrieving"
    /\ results' = [j \in 1..Len(r) |-> index[r[j]].context]
    /\ stats' = [stats EXCEPT !.n_docs = 1]
    /\ IF Len(r) > 0
       THEN /\ main' = "generating"
            /\ UNCHANGED <<answer, printed>>
       ELSE /\ main' = "answered"
            /\ answer' = NoInfo
            /\ printed' = NoInfo
    /\ UNCHANGED <<batches, asked, sources, workerVars, index, everFit,
                   question, prompt, llmCalls, response>>

\* lines 113-125: retriever.invoke returns; without results the fixed text
\* is returned and printed, line 165
Retrieve(r) ==
    /\ main = "retrieving"
    /\ results' = [j \in 1..Len(r) |-> index[r[j]].context]
    /\ IF Len(r) > 0
       THEN /\ main' = "generating"
            /\ UNCHANGED <<answer, printed>>
       ELSE /\ main' = "answered"
            /\ answer' = NoInfo
            /\ printed' = NoInfo
    /\ UNCHANGED <<batches, asked, sources, workerVars, stats, index, everFit,
                   question, prompt, llmCalls, response>>

\* line 113 raises: caught at lines 166-167
RetrieveFail ==
    /\ main = "retrieving"
    /\ main' = "answered"
    /\ answer' = "RetrievalError"
    /\ printed' = "Error retrieving answer"
    /\ UNCHANGED <<batches, asked, sources, workerVars, stats, index, everFit,
                   question, results, prompt, llmCalls, response>>

\* variant of build_prompt that joins the contents last to first
build_prompt_reversed(res, q) ==
    Join([j \in 1..Len(res) |-> res[Len(res) + 1 - j]], <<"\n">>)
        \o <<"\nQuestion: ", q, "\nAnswer:">>

\* lines 116, 122: the prompt handed to the model
build_prompt(res, q) ==
    Join(res, <<"\n">>) \o <<"\nQuestion: ", q, "\nAnswer:">>

\* lines 117-123, 165: the model answers and its text is returned and printed
Generate(c) ==
    /\ main = "generating"
    /\ prompt' = build_prompt(results, question)
    /\ llmCalls' = llmCalls + 1
    /\ response' = c
    /\ answer' = c
    /\ printed' = c
    /\ main' = "answered"
    /\ UNCHANGED <<batches, asked, sources, workerVars, stats, index, everFit,
                   question, results>>

\* variant of GenerateFail that calls the model once more after a failure
GenerateFailRetry ==
    /\ main = "generating"
    /\ prompt' = build_prompt(results, question)
    /\ llmCalls' = llmCalls + 1
    /\ response' = "raised"
    /\ IF llmCalls = 0
       THEN UNCHANGED <<main, answer, printed>>
       ELSE /\ answer' = "GenerationError"
            /\ printed' = "Error retrieving answer"
            /\ main' = "answered"
    /\ UNCHANGED <<batches, asked, sources, workerVars, stats, index, everFit,
                   question, results>>

\* line 122 raises: caught at lines 166-167
GenerateFail ==
    /\ main = "generating"
    /\ prompt' = build_prompt(results, question)
    /\ llmCalls' = llmCalls + 1
    /\ response' = "raised"
    /\ answer' = "GenerationError"
    /\ printed' = "Error retrieving answer"
    /\ main' = "answered"
    /\ UNCHANGED <<batches, asked, sources, workerVars, stats, index, everFit,
                   question, results>>

\* lines 159-160: the next question is prompted for; the locals of the
\* finished call are gone
NextQuestion ==
    /\ main = "answered"
    /\ main' = "asking"
    /\ printed' = QuestionPrompt
    /\ question' = "none"
    /\ results' = <<>>
    /\ prompt' = <<>>
    /\ llmCalls' = 0
    /\ response' = "none"
    /\ answer' = "none"
    /\ UNCHANGED <<batches, asked, sources, workerVars, stats, index, everFit>>

\* lines 169-171
Quit ==
    /\ main = "menu"
    /\ main' = "quit"
    /\ printed' = "Goodbye..."
    /\ UNCHANGED <<batches, asked, sources, workerVars, stats, index, everFit,
                   queryVars>>

Next ==
    \/ \E srcs \in SrcLists : AddDocuments(srcs)
    \/ NoSources
    \/ \E i \in Tasks : Start(i)
    \/ \E i \in Tasks, t \in Texts : Extract(i, t)
    \/ \E i \in Tasks : ExtractFail(i)
    \/ \E i \in Tasks : Normalize(i)
    \/ \E i \in Tasks : EncodeChunk(i)
    \/ \E i \in Tasks : Upsert(i)
    \/ \E i \in Tasks : UpsertFail(i)
    \/ \E i \in Tasks : FitDocFreq(i)
    \/ \E i \in Tasks : FitNDocs(i)
    \/ \E i \in Tasks : FitAvgdl(i)
    \/ AddDocumentsReturn
    \/ ToMenu
    \/ ChooseAsk
    \/ \E q \in Questions : AskQuestion(q)
    \/ DoneAsking
    \/ \E r \in Rankings(index) : Retrieve(r)
    \/ RetrieveFail
    \/ \E c \in Completions : Generate(c)
    \/ GenerateFail
    \/ NextQuestion
    \/ Quit

Spec == Init /\ [][Next]_vars

\* the steps of the worker thread of source i
WorkerStep(i) ==
    /\ i \in Tasks
    /\ \/ Start(i)
       \/ \E t \in Texts : Extract(i, t)
       \/ ExtractFail(i)
       \/ Normalize(i)
       \/ EncodeChunk(i)
       \/ Upsert(i)
       \/ UpsertFail(i)
       \/ FitDocFreq(i)
       \/ FitNDocs(i)
       \/ FitAvgdl(i)

TaskIds == UNION {DOMAIN l : l \in SrcLists}

\* the threads of a batch: the workers and the main thread waiting for them
BatchStep == (\E i \in TaskIds : WorkerStep(i)) \/ AddDocumentsReturn

\* the main loop without its question branch, which cannot run while a
\* batch is being added
IngestNext ==
    \/ \E srcs \in SrcLists : AddDocuments(srcs)
    \/ NoSources
    \/ \E i \in Tasks : Start(i)
    \/ \E i \in Tasks, t \in Texts : Extract(i, t)
    \/ \E i \in Tasks : ExtractFail(i)
    \/ \E i \in Tasks : Normalize(i)
    \/ \E i \in Tasks : EncodeChunk(i)
    \/ \E i \in Tasks : Upsert(i)
    \/ \E i \in Tasks : UpsertFail(i)
    \/ \E i \in Tasks : FitDocFreq(i)
    \/ \E i \in Tasks : FitNDocs(i)
    \/ \E i \in Tasks : FitAvgdl(i)
    \/ AddDocumentsReturn
    \/ ToMenu
    \/ Quit

\* the threads of a batch keep being scheduled and every call they make
\* comes back
LiveSpec ==
    /\ Init
    /\ [][IngestNext]_vars
    /\ WF_vars(BatchStep)

TypeOK ==
    /\ main \in {"menu", "ingesting", "added", "nosources", "asking", "retrieving",
                "generating", "answered", "quit"}
    /\ batches \in 0..MaxBatches
    /\ asked \in 0..MaxQuestions
    /\ \A i \in Tasks : pc[i] \in {"Pending", "Extracting", "Normalizing", "Encoding",
                                   "Upserting", "Fitting", "FitNDocs", "FitAvgdl",
                                   "Upserted", "Failed"}


\* ============================================================== claims
Supported(i) == IsPdf(sources[i]) \/ IsUrl(sources[i])

Stored == {index[d].context : d \in DOMAIN index}

\* in this program the fit of a source is complete exactly when its worker
\* has returned normally
FitCompleted(i) == pc[i] = "Upserted"

InFit(i) == pc[i] \in {"FitNDocs", "FitAvgdl"}
InUpsert(i) == pc[i] = "Upserting"

RECURSIVE SumOver(_, _)
SumOver(f, S) ==
    IF S = {} THEN 0
    ELSE LET x == CHOOSE y \in S : TRUE IN f[x] + SumOver(f, S \ {x})

UpsertedTasks == {i \in Tasks : pc[i] = "Upserted"}

\* C1: fit is cumulative: the document count and every term's document
\* frequency account for all corpora whose fit has completed so far.
C1_FitCumulative ==
    /\ stats.n_docs >= everFit.n_docs
    /\ \A t \in Terms : stats.doc_freq[t] >= everFit.doc_freq[t]

\* C2: no two workers of different sources are at the same time inside a
\* fit or an upsert.
C2_MutualExclusion ==
    \A i, j \in Tasks :
        i # j => ~((InFit(i) \/ InUpsert(i)) /\ (InFit(j) \/ InUpsert(j)))

\* C3: when the batch has finished, the statistics account for the chunks
\* of every upserted source and the index holds every one of those chunks.
C3_NoLostUpdate ==
    main = "added" =>
        /\ \A i \in UpsertedTasks : \A k \in 1..Len(sentences[i]) :
               sentences[i][k] \in Stored
        /\ stats.n_docs >=
               SumOver([i \in Tasks |-> fit_n_docs(sentences[i])], UpsertedTasks)
        /\ \A t \in Terms :
               stats.doc_freq[t] >=
                   SumOver([i \in Tasks |-> fit_doc_freq(sentences[i])[t]], UpsertedTasks)

OwnFailure(i) ==
    \/ cause[i] = "Unsupported source format" /\ ~Supported(i)
    \/ cause[i] = "Extraction" /\ Supported(i) /\ sentences[i] = <<>>
    \/ cause[i] = "No valid content" /\ Supported(i) /\ sentences[i] = <<>>
    \/ cause[i] = "Upsert" /\ sentences[i] # <<>>
    \/ cause[i] = "Fit" /\ sentences[i] # <<>> /\ fit_n_docs(sentences[i]) = 0

\* C4: when the batch returns, every source has been processed to its own
\* end: a source is Failed only for a failure of its own, whatever happened
\* to its siblings, and every other source is Upserted.
C4_FailureIsolation ==
    main = "added" =>
        \A i \in Tasks :
            /\ pc[i] \in Terminal
            /\ pc[i] = "Failed" => OwnFailure(i)

C4_Witness ==
    /\ main = "added"
    /\ \E i, j \in Tasks : pc[i] = "Failed" /\ pc[j] = "Upserted"

\* C5: when the batch returns, every source is Upserted or Failed, and a
\* failed source has a recorded cause that the caller is told about.
C5_FailureReported ==
    main = "added" =>
        \A i \in Tasks :
            /\ pc[i] \in Terminal
            /\ pc[i] = "Failed" =>
                   /\ cause[i] # "none"
                   /\ \/ batchException = cause[i]
                      \/ printed = "Error adding documents"

\* C6: the step that picks up an unsupported source fails it at once with
\* the unsupported-source error and leaves statistics and index unchanged.
C6_UnsupportedNoTouch ==
    [][\A i \in Tasks :
          (pc[i] = "Pending" /\ ~Supported(i) /\ pc'[i] # "Pending") =>
              (/\ pc'[i] = "Failed"
               /\ cause'[i] = "Unsupported source format"
               /\ stats' = stats
               /\ index' = index)]_vars

C6_Witness ==
    \E i \in Tasks :
        /\ ~Supported(i)
        /\ pc[i] = "Failed"
        /\ cause[i] = "Unsupported source format"
        /\ index # <<>>

\* C7: the step that finds that a text has no sentence fails the source
\* with the empty-content error; nothing of it is fitted or upserted.
C7_EmptyContentFails ==
    [][\A i \in Tasks :
          (pc[i] = "Normalizing" /\ preprocess_text(text[i]) = <<>>
             /\ pc'[i] # "Normalizing") =>
              (/\ pc'[i] = "Failed"
               /\ cause'[i] = "No valid content"
               /\ pos'[i] = 0
               /\ stats' = stats
               /\ index' = index
               /\ everFit' = everFit)]_vars

C7_Witness ==
    \E i \in Tasks :
        /\ pc[i] = "Failed"
        /\ cause[i] = "No valid content"
        /\ pos[i] = 0

\* C8: a retrieval without results, as every retrieval from an empty index
\* is, ends in the fixed text as a normal value, and the model is not called.
C8_EmptyRetrieval ==
    /\ main = "generating" => results # <<>>
    /\ (main = "answered" /\ answer # "RetrievalError" /\ results = <<>>) =>
           /\ answer = NoInfo
           /\ printed = NoInfo
           /\ llmCalls = 0
    /\ (main \in {"generating", "answered"} /\ index = <<>>) => results = <<>>

C8_Witness ==
    /\ main = "answered"
    /\ index = <<>>
    /\ answer = NoInfo
    /\ llmCalls = 0

\* C9: no step of a question changes the statistics or the index.
C9_AnswerReadOnly ==
    [][(main \in {"asking", "retrieving", "generating", "answered"}) =>
          (/\ stats' = stats
           /\ index' = index)]_vars

C9_Witness ==
    /\ main = "answered"
    /\ answer = "GenerationError"
    /\ stats # DefaultStats
    /\ index # <<>>

\* C10: the chunks of a source are fitted into the statistics before any of
\* them is encoded or upserted.
C10_FitBeforeEncode ==
    \A i \in Tasks :
        (vecs[i] # <<>> \/ pos[i] > 0) => FitCompleted(i)


\* C11: whenever no ingestion is in flight, the sparse vector stored with
\* every chunk equals the encoding of the chunk's text under the statistics
\* the encoder holds at that moment.
C11_SnapshotConsistency ==
    main # "ingesting" =>
        \A d \in DOMAIN index :
            index[d].sparse = encode_document(index[d].context, stats.avgdl)


Missing(i) == {k \in 1..Len(sentences[i]) : sentences[i][k] \notin Stored}

\* C12: when the batch has finished, a source whose upsert was rejected
\* has lost at most the one rejected chunk: its other chunks and all chunks
\* of its upserted siblings are stored and counted in the statistics.
C12_UpsertFailureLocal ==
    main = "added" =>
        \A i \in Tasks :
            cause[i] = "Upsert" =>
                /\ Cardinality(Missing(i)) <= 1
                /\ \A j \in UpsertedTasks : Missing(j) = {}
                /\ stats.n_docs >=
                       (Len(sentences[i]) - 1) +
                       SumOver([j \in Tasks |-> fit_n_docs(sentences[j])], UpsertedTasks)


\* C13: for a non-empty retrieval the model is invoked exactly once, never
\* again after a failure, and a failure leaves query_vector_database as an
\* error that the main loop reports.
C13_NoRetry ==
    /\ main = "generating" => llmCalls = 0
    /\ (main = "answered" /\ results # <<>>) =>
           /\ llmCalls = 1
           /\ response = "raised" =>
                  /\ answer = "GenerationError"
                  /\ printed = "Error retrieving answer"

C13_Witness ==
    /\ main = "answered"
    /\ results # <<>>
    /\ response = "raised"
    /\ llmCalls = 1

RECURSIVE LinesFrom(_, _, _, _)
LinesFrom(t, i, cur, acc) ==
    IF i > Len(t) THEN Append(acc, cur)
    ELSE IF t[i] = "\n"
         THEN LinesFrom(t, i + 1, <<>>, Append(acc, cur))
         ELSE LinesFrom(t, i + 1, Append(cur, t[i]), acc)

\* the lines of a text
Lines(t) == LinesFrom(t, 1, <<>>, <<>>)

Min(a, b) == IF a < b THEN a ELSE b

\* C14: after a call of the model, the prompt it was given reads, line by
\* line, as the retrieved texts in their ranking order, each once, followed
\* by the question; the retrieved texts are distinct stored chunks; and the
\* text of the model is what is returned and printed.
C14_PromptAndAnswer ==
    (main = "answered" /\ llmCalls > 0) =>
        LET n == Len(prompt) IN
        /\ n > 3
        /\ prompt[n - 2] = "\nQuestion: "
        /\ prompt[n - 1] = question
        /\ prompt[n] = "\nAnswer:"
        /\ Lines(SubSeq(prompt, 1, n - 3)) = results
        /\ Len(results) = Min(top_k, Cardinality(DOMAIN index))
        /\ \A a, b \in 1..Len(results) :
               /\ results[a] \in Stored
               /\ results[a] = results[b] => a = b
        /\ response # "raised" => (answer = response /\ printed = response)

C14_Witness ==
    /\ main = "answered"
    /\ Len(results) >= 2
    /\ llmCalls = 1
    /\ answer \in Completions


AlreadyStored(idx, recs) ==
    \A j \in 1..Len(recs) :
        /\ recs[j].id \in DOMAIN idx
        /\ idx[recs[j].id] = [context |-> recs[j].context, sparse |-> recs[j].sparse]

\* C15: an upsert stores one record per id; sending the same request again
\* leaves the stored records as they are, and so does a request whose
\* records are all stored already with identical content.
C15_UpsertIdempotent ==
    [][\A i \in Tasks :
          (pc[i] = "Upserting" /\ pos'[i] > pos[i]) =>
              (/\ DOMAIN index' =
                      (DOMAIN index) \cup {vecs[i][j].id : j \in 1..Len(vecs[i])}
               /\ upsert(index', vecs[i]) = index'
               /\ AlreadyStored(index, vecs[i]) => index' = index)]_vars

\* both workers of a batch of twice the same source have upserted the same
\* text, encoded under the same statistics
C15_Witness ==
    /\ main = "ingesting"
    /\ Len(sources) = 2
    /\ sources[1] = sources[2]
    /\ pos[1] > 0
    /\ pos[2] > 0
    /\ stats.avgdl = DefaultStats.avgdl
    /\ batches = 1
    /\ Cardinality(DOMAIN index) = 1


\* C16: when add_documents_batch is back, the success message is printed
\* only if every source of the batch was ingested; with a failed source the
\* error message is printed instead.
C16_SuccessMessage ==
    main = "added" =>
        /\ printed = "Documents successfully added to the retriever." =>
               \A i \in Tasks : pc[i] = "Upserted"
        /\ (\E i \in Tasks : pc[i] = "Failed") => printed = "Error adding documents"

\* C17: add_documents_batch is back only when every source is Upserted or
\* Failed; and under fair scheduling every source of a batch gets there and
\* the call does come back.
C17_BatchCompletes ==
    /\ [](main = "added" => \A i \in Tasks : pc[i] \in Terminal)
    /\ (main = "ingesting") ~>
           (main = "added" /\ \A i \in Tasks : pc[i] \in Terminal)

C17_Witness ==
    /\ main = "added"
    /\ Len(sources) = 2
    /\ \A i \in Tasks : pc[i] = "Upserted"

====
